---- MODULE Spec2Model ----
(***************************************************************************)
(* dynamodb-copy (cli/cli.py): copy every item of a source DynamoDB table  *)
(* to a destination table.  The program is sequential; every action below  *)
(* is one segment of code that ends at the response of one blocking call   *)
(* to AWS (STS get_caller_identity, table.load, table.scan,                *)
(* batch_write_item) or at a function return.                              *)
(*                                                                         *)
(* Two specifications are modelled over the same functions:                *)
(*   Spec    - cli.run (cli.py:133-153)                                    *)
(*   SpecRT  - on an arbitrary item sequence S, either                     *)
(*             write_items_to_dyanmodb_table(S, D); get_dynamodb_items(D)  *)
(*             (the round trip of tests/test_cli.py:104-106), or           *)
(*             write_items_to_dyanmodb_table(S, D) twice in a row.         *)
(***************************************************************************)
EXTENDS Integers, Sequences, FiniteSets, TLC

\* ---- bounds of the model ------------------------------------------------
MaxKeys == 3          \* primary keys 1..MaxKeys
MaxLen == 3           \* longest item sequence S handed to the writer in SpecRT
MaxPage == 2          \* most items the store puts in one scan page
MaxEmptyPages == 1    \* scan responses that carry a cursor but make no progress
MaxUnprocessed == 4   \* items the store hands back as UnprocessedItems in all, SpecRT
MaxUnprocessedRun == 1  \* the same for a run of cli.run, Spec
flush_amount == 2     \* boto3 BatchWriter flush_amount (25 in boto3), scaled down

\* DynamoDB's BatchWriteItem limit; boto3's flush_amount is set to this limit.
MaxBatchSize == flush_amount

Keys == 1..MaxKeys
Vals == {1, 2}          \* attribute values: enough to tell data apart
NoItem == 0           \* a key with no item in the table
None == -1            \* Python None / absent 'LastEvaluatedKey'

Min(a, b) == IF a < b THEN a ELSE b

\* An item is <<key, data>>; a table maps each key to its data or NoItem.
Item == Keys \X Vals
Tables == [Keys -> Vals \cup {NoItem}]
EmptyTable == [k \in Keys |-> NoItem]

VARIABLES
    pc,                  \* position of the program
    prog,                \* the program executed: "run", "roundtrip" or "twice"
    exitCode,            \* process exit code; None while the process runs
    printed,             \* error messages printed by the program, in order
    srcTable,            \* content of the source table
    destTable,           \* content of the destination table
    destInit,            \* content of the destination table at start
    destAfter1,          \* content of the destination after the first complete write
    scanTable,           \* get_dynamodb_items: the table argument ("src" / "dest")
    items,               \* get_dynamodb_items: items
    last_evaluated_key,  \* get_dynamodb_items: last_evaluated_key
    bar,                 \* get_dynamodb_items: progress counter index
    src_items,           \* run: src_items, the writer's items argument
    dest_items,          \* test: dest_items, result of scanning the destination
    widx,                \* writer: position of the for loop in items
    buffer,              \* BatchWriter._items_buffer
    wbar,                \* writer: progress counter index
    exc,                 \* an exception is propagating through the with-exits
    rounds,              \* number of writer calls that returned normally
    trace,               \* every request issued to AWS with its response, in order
    emptyLeft,           \* store: remaining no-progress scan responses
    unprocLeft           \* store: remaining unprocessed-item hand-backs

scanVars == <<scanTable, items, last_evaluated_key, bar>>
writeVars == <<widx, buffer, wbar, exc>>
storeVars == <<srcTable, destTable, destInit, emptyLeft, unprocLeft>>
vars == <<pc, prog, exitCode, printed, srcTable, destTable, destInit, destAfter1,
          scanTable, items, last_evaluated_key, bar, src_items, dest_items,
          widx, buffer, wbar, exc, rounds, trace, emptyLeft, unprocLeft>>

\* One request/response pair in the trace.
Ev(op, tgt, req, out, resp, n, batch) ==
    [op |-> op, tgt |-> tgt, req |-> req, out |-> out, resp |-> resp, n |-> n,
     batch |-> batch]

\* ---- the backing store --------------------------------------------------
RECURSIVE TableItemsFrom(_, _)
TableItemsFrom(t, k) ==
    IF k > MaxKeys THEN <<>>
    ELSE (IF t[k] = NoItem THEN <<>> ELSE << <<k, t[k]>> >>) \o TableItemsFrom(t, k + 1)

\* The items of a table in the store's scan order.
TableItems(t) == TableItemsFrom(t, 1)

\* The cursor is opaque to the program: the number of items evaluated so far.
ScanStart(start) == IF start = None THEN 0 ELSE start

\* A response makes no progress towards the end of the scan when it carries a
\* cursor although it is empty or although the table is exhausted.
ScanCost(t, start, resp) ==
    IF resp.LastEvaluatedKey # None
       /\ (resp.Count = 0 \/ resp.LastEvaluatedKey = Len(TableItems(t)))
    THEN 1 ELSE 0

\* Every response table.scan may give to a request with the given start key.
ScanResponses(t, start, budget) ==
    LET all == TableItems(t)
        N == Len(all)
        p == ScanStart(start)
        cand == { [Items |-> SubSeq(all, p + 1, p + n), Count |-> n,
                   LastEvaluatedKey |-> c] :
                     n \in 0..Min(MaxPage, N - p), c \in {None} \cup 0..N }
    IN { r \in cand :
           /\ r.LastEvaluatedKey = None => p + r.Count = N
           /\ r.LastEvaluatedKey # None => r.LastEvaluatedKey = p + r.Count
           /\ ScanCost(t, start, r) <= budget }

TableOf(name) == IF name = "src" THEN srcTable ELSE destTable

HasDupKeys(s) == \E i, j \in 1..Len(s) : i < j /\ s[i][1] = s[j][1]

SeqToSet(s) == { s[i] : i \in 1..Len(s) }

\* PutItem is an upsert by key.
RECURSIVE PutAll(_, _)
PutAll(t, s) ==
    IF s = <<>> THEN t
    ELSE PutAll([t EXCEPT ![Head(s)[1]] = Head(s)[2]], Tail(s))

\* The lists the store may hand back as UnprocessedItems of a batch: any
\* subset of the batch in any order.
UnprocessedChoices(batch, budget) ==
    { u \in UNION { [1..n -> SeqToSet(batch)] : n \in 0..Min(Len(batch), budget) } :
        \A i, j \in 1..Len(u) : i # j => u[i] # u[j] }

Remove(s, u) == SelectSeq(s, LAMBDA x : x \notin SeqToSet(u))

\* BatchWriteItem rejects a batch over the limit or with two items of one key.
BatchRejected(batch) == Len(batch) > MaxBatchSize \/ HasDupKeys(batch)

\* ---- process exit -------------------------------------------------------
\* sys.exit(code), or an uncaught exception (traceback, exit code 1).
Terminate(code, msg) ==
    /\ pc' = "done"
    /\ exitCode' = code
    /\ printed' = IF msg = "" THEN printed ELSE Append(printed, msg)

\* ---- validate_aws_credentials -------------------------------------------
\* What sts get_caller_identity can do: answer, raise a ClientError with some
\* error code, raise EndpointConnectionError, or raise anything else.
StsOutcomes ==
    {"ok", "ExpiredToken", "InvalidClientTokenId", "OtherClientError",
     "EndpointConnectionError", "OtherException"}

StsErrors == StsOutcomes \ {"ok"}

\* Mutant: the except block of EndpointConnectionError does not exit.
validate_aws_credentials_RegionSwallowed(outcome) ==
    CASE outcome \in {"ok", "OtherClientError", "EndpointConnectionError"} ->
            [result |-> "return", msg |-> ""]
      [] outcome = "ExpiredToken" ->
            [result |-> "exit", msg |-> "ERROR: Security token issue: expired"]
      [] outcome = "InvalidClientTokenId" ->
            [result |-> "exit", msg |-> "ERROR: Security token issue: invalid"]
      [] OTHER -> [result |-> "raise", msg |-> "Traceback"]

\* The way validate_aws_credentials ends for each outcome of the STS call.
validate_aws_credentials(outcome) ==
    CASE outcome = "ok" -> [result |-> "return", msg |-> ""]
      [] outcome = "ExpiredToken" ->
            [result |-> "exit", msg |-> "ERROR: Security token issue: expired"]
      [] outcome = "InvalidClientTokenId" ->
            [result |-> "exit", msg |-> "ERROR: Security token issue: invalid"]
      [] outcome = "OtherClientError" ->
            \* neither if matches: the except block ends and None is returned
            [result |-> "return", msg |-> ""]
      [] outcome = "EndpointConnectionError" ->
            [result |-> "exit", msg |-> "ERROR Invalid Region"]
      [] OTHER -> [result |-> "raise", msg |-> "Traceback"]

Validate(who, next) ==
    \E o \in StsOutcomes :
        LET r == validate_aws_credentials(o) IN
        /\ trace' = Append(trace, Ev("sts", who, None, o, None, 0, <<>>))
        /\ IF r.result = "return"
           THEN pc' = next /\ UNCHANGED <<exitCode, printed>>
           ELSE Terminate(1, r.msg)
        /\ UNCHANGED <<prog, destAfter1, src_items, dest_items, rounds>>
        /\ UNCHANGED <<scanVars, writeVars, storeVars>>

\* run, line 142
ValidateSrc == pc = "validate_src" /\ Validate("src", "validate_dest")

\* run, line 143
ValidateDest == pc = "validate_dest" /\ Validate("dest", "load_src")

\* ---- get_dynamodb_table -------------------------------------------------
LoadOutcomes == {"ok", "ResourceNotFoundException", "OtherException"}

\* Mutant: the except block prints and forgets exit(1).
get_dynamodb_table_NoExit(outcome) ==
    CASE outcome \in {"ok", "ResourceNotFoundException"} ->
            [result |-> "return", msg |-> ""]
      [] OTHER -> [result |-> "raise", msg |-> "Traceback"]

\* The way get_dynamodb_table ends for each outcome of table.load.
get_dynamodb_table(outcome) ==
    CASE outcome = "ok" -> [result |-> "return", msg |-> ""]
      [] outcome = "ResourceNotFoundException" ->
            [result |-> "exit", msg |-> "ERROR: count not find the table"]
      [] OTHER -> [result |-> "raise", msg |-> "Traceback"]

Load(who, next) ==
    \E o \in LoadOutcomes :
        LET r == get_dynamodb_table(o) IN
        /\ trace' = Append(trace, Ev("load", who, None, o, None, 0, <<>>))
        /\ IF r.result = "return"
           THEN pc' = next /\ UNCHANGED <<exitCode, printed>>
           ELSE Terminate(1, r.msg)
        /\ UNCHANGED <<prog, destAfter1, src_items, dest_items, rounds>>
        /\ UNCHANGED <<scanVars, writeVars, storeVars>>

\* run, line 146
LoadSrc == pc = "load_src" /\ Load("src", "load_dest")

\* run, line 147
LoadDest == pc = "load_dest" /\ Load("dest", "scan_first")

\* ---- get_dynamodb_items -------------------------------------------------
\* Lines 103-105 and the caller's assignment of the returned list:
\* run line 150 (then line 153), test line 106 (the test ends).
ScanReturn(result) ==
    IF prog = "run"
    THEN /\ src_items' = result
         /\ pc' = "write_enter"
         /\ UNCHANGED <<dest_items, exitCode, printed>>
    ELSE /\ dest_items' = result
         /\ UNCHANGED src_items
         /\ Terminate(0, "")

\* Mutant: items = resp['Items']
Accumulate_Replace(acc, page) == page

\* Mutant: items = resp['Items'] + items
Accumulate_Prepend(acc, page) == page \o acc

\* lines 87 and 96: items += resp['Items']
Accumulate(acc, page) == acc \o page

\* Mutant: the loop is missing, only the first page is read.
MorePages_Never(lek) == FALSE

\* Mutant: while True, the loop never ends.
MorePages_Always(lek) == TRUE

\* line 94: while last_evaluated_key is not None
MorePages(lek) == lek # None

\* Mutant: bar.next() without the count of the page.
bar_next_ByOne(index, n) == index + 1

\* progress Counter.next(n): lines 92 and 101 with n = resp['Count'], line 122
\* with n = 1
bar_next(index, n) == index + n

\* Mutant: the scan error is caught and the items read so far are returned.
ScanRaises_Caught(start) ==
    /\ trace' = Append(trace, Ev("scan", scanTable, start, "error", None, 0, <<>>))
    /\ ScanReturn(items)
    /\ UNCHANGED <<emptyLeft, items, last_evaluated_key, bar>>

\* lines 86 and 95: table.scan raises and nothing catches the exception.
ScanRaises(start) ==
    /\ trace' = Append(trace, Ev("scan", scanTable, start, "error", None, 0, <<>>))
    /\ Terminate(1, "Traceback")
    /\ UNCHANGED <<emptyLeft, items, last_evaluated_key, bar, src_items, dest_items>>

\* One table.scan request from the given start key, and the code up to the
\* next request: lines 87-92 / 96-101.
ScanPage(start) ==
    \/ \E resp \in ScanResponses(TableOf(scanTable), start, emptyLeft) :
        LET all == Accumulate(IF start = None THEN <<>> ELSE items, resp.Items) IN
        /\ trace' = Append(trace, Ev("scan", scanTable, start, "ok",
                                     resp.LastEvaluatedKey, resp.Count, resp.Items))
        /\ emptyLeft' = emptyLeft - ScanCost(TableOf(scanTable), start, resp)
        /\ items' = all
        /\ last_evaluated_key' = resp.LastEvaluatedKey
        /\ bar' = bar_next(IF start = None THEN 0 ELSE bar, resp.Count)
        /\ IF MorePages(resp.LastEvaluatedKey)
           THEN /\ pc' = "scan_loop"
                /\ UNCHANGED <<src_items, dest_items, exitCode, printed>>
           ELSE ScanReturn(all)
    \/ ScanRaises(start)

\* lines 83-92
ScanFirst ==
    /\ pc = "scan_first"
    /\ ScanPage(None)
    /\ UNCHANGED <<prog, destAfter1, scanTable, rounds, writeVars>>
    /\ UNCHANGED <<srcTable, destTable, destInit, unprocLeft>>

\* lines 94-101, one iteration
ScanNext ==
    /\ pc = "scan_loop"
    /\ ScanPage(last_evaluated_key)
    /\ UNCHANGED <<prog, destAfter1, scanTable, rounds, writeVars>>
    /\ UNCHANGED <<srcTable, destTable, destInit, unprocLeft>>

\* ---- boto3 BatchWriter --------------------------------------------------
\* Mutant: the unprocessed items of a response are not put back in the buffer.
FlushOutcomes_DropUnprocessed(buf, budget) ==
    LET send == SubSeq(buf, 1, Min(flush_amount, Len(buf)))
        rest == SubSeq(buf, flush_amount + 1, Len(buf))
    IN { [raised |-> TRUE, sent |-> send, unproc |-> <<>>, buffer |-> rest] }
       \cup
       (IF BatchRejected(send) THEN {}
        ELSE { [raised |-> FALSE, sent |-> send, unproc |-> u, buffer |-> rest] :
                 u \in UnprocessedChoices(send, budget) })

\* Mutant: a flush sends the whole buffer instead of its first flush_amount items.
FlushOutcomes_WholeBuffer(buf, budget) ==
    { [raised |-> TRUE, sent |-> buf, unproc |-> <<>>, buffer |-> <<>>] }
    \cup
    (IF BatchRejected(buf) THEN {}
     ELSE { [raised |-> FALSE, sent |-> buf, unproc |-> u, buffer |-> u] :
              u \in UnprocessedChoices(buf, budget) })

\* BatchWriter._flush on the given buffer: the batch sent, what the store
\* does with it, and the buffer afterwards.
FlushOutcomes(buf, budget) ==
    LET send == SubSeq(buf, 1, Min(flush_amount, Len(buf)))
        rest == SubSeq(buf, flush_amount + 1, Len(buf))
    IN { [raised |-> TRUE, sent |-> send, unproc |-> <<>>, buffer |-> rest] }
       \cup
       (IF BatchRejected(send) THEN {}
        ELSE { [raised |-> FALSE, sent |-> send, unproc |-> u, buffer |-> rest \o u] :
                 u \in UnprocessedChoices(send, budget) })

\* The request of one flush and its effect on the destination table.
FlushEffect(o) ==
    /\ trace' = Append(trace, Ev("write", "dest", None,
                                 IF o.raised THEN "error" ELSE "ok",
                                 None, Len(o.unproc), o.sent))
    /\ buffer' = o.buffer
    /\ destTable' = IF o.raised THEN destTable
                    ELSE PutAll(destTable, Remove(o.sent, o.unproc))
    /\ unprocLeft' = unprocLeft - Len(o.unproc)

\* ---- write_items_to_dyanmodb_table --------------------------------------
\* Mutant: the loop is off by one, it skips the first item and repeats the last.
LoopItem_OffByOne(its, i) == its[Min(i + 1, Len(its))]

\* line 120: the item of the for loop's i-th iteration
LoopItem(its, i) == its[i]

\* lines 116-119: enter both with-blocks, evaluate the for loop's first test
WriterEnter ==
    /\ pc = "write_enter"
    /\ widx' = 1
    /\ buffer' = <<>>
    /\ wbar' = 0
    /\ exc' = FALSE
    /\ pc' = IF src_items = <<>> THEN "batch_exit" ELSE "write_loop"
    /\ UNCHANGED <<prog, exitCode, printed, destAfter1, src_items, dest_items,
                   rounds, trace, scanVars, storeVars>>

\* lines 120-121, one iteration: batch.put_item(Item=item), which appends the
\* item to the buffer and flushes once when flush_amount items are buffered
PutItem ==
    /\ pc = "write_loop"
    /\ widx <= Len(src_items)
    /\ LET buf1 == Append(buffer, LoopItem(src_items, widx))
       IN IF Len(buf1) >= flush_amount
          THEN \E o \in FlushOutcomes(buf1, unprocLeft) :
                 /\ FlushEffect(o)
                 /\ IF o.raised
                    THEN exc' = TRUE /\ pc' = "batch_exit"
                    ELSE pc' = "bar_next" /\ UNCHANGED exc
          ELSE /\ buffer' = buf1
               /\ pc' = "bar_next"
               /\ UNCHANGED <<exc, trace, destTable, unprocLeft>>
    /\ UNCHANGED <<prog, exitCode, printed, destAfter1, src_items, dest_items,
                   rounds, widx, wbar, scanVars, srcTable, destInit, emptyLeft>>

\* Mutant: bar.next() stands after the loop instead of inside it.
CountItem_AfterLoop ==
    /\ pc = "bar_next"
    /\ wbar' = IF widx = Len(src_items) THEN bar_next(wbar, 1) ELSE wbar
    /\ widx' = widx + 1
    /\ pc' = IF widx = Len(src_items) THEN "batch_exit" ELSE "write_loop"
    /\ UNCHANGED <<prog, exitCode, printed, destAfter1, src_items, dest_items,
                   rounds, trace, buffer, exc, scanVars, storeVars>>

\* line 122: bar.next(), then the for loop's next test
CountItem ==
    /\ pc = "bar_next"
    /\ wbar' = bar_next(wbar, 1)
    /\ widx' = widx + 1
    /\ pc' = IF widx = Len(src_items) THEN "batch_exit" ELSE "write_loop"
    /\ UNCHANGED <<prog, exitCode, printed, destAfter1, src_items, dest_items,
                   rounds, trace, buffer, exc, scanVars, storeVars>>

\* BatchWriter.__exit__, one iteration of "while self._items_buffer: self._flush()";
\* it runs whether or not an exception is leaving the with-block.
BatchExitFlush ==
    /\ pc = "batch_exit"
    /\ buffer # <<>>
    /\ \E o \in FlushOutcomes(buffer, unprocLeft) :
         /\ FlushEffect(o)
         /\ IF o.raised
            THEN Terminate(1, "Traceback")
            ELSE UNCHANGED <<pc, exitCode, printed>>
    /\ UNCHANGED <<prog, destAfter1, src_items, dest_items, rounds, widx, wbar, exc,
                   scanVars, srcTable, destInit, emptyLeft>>

\* BatchWriter.__exit__ returns; line 123; return to the caller:
\* run ends after line 153, the round trip goes on to scan the destination
\* (test line 106), the double write calls the writer once more.
WriterReturn ==
    /\ pc = "batch_exit"
    /\ buffer = <<>>
    /\ IF exc
       THEN /\ Terminate(1, "Traceback")
            /\ UNCHANGED <<rounds, destAfter1>>
       ELSE /\ rounds' = rounds + 1
            /\ destAfter1' = IF rounds = 0 THEN destTable ELSE destAfter1
            /\ CASE prog = "run" -> Terminate(0, "")
                 [] prog = "roundtrip" ->
                      pc' = "scan_first" /\ UNCHANGED <<exitCode, printed>>
                 [] OTHER ->
                      IF rounds = 0
                      THEN pc' = "write_enter" /\ UNCHANGED <<exitCode, printed>>
                      ELSE Terminate(0, "")
    /\ UNCHANGED <<prog, src_items, dest_items, trace, scanVars, writeVars, storeVars>>

\* ---- the programs -------------------------------------------------------
\* Destination contents the runs start from: empty, or one item already there.
DestInits == { EmptyTable, [EmptyTable EXCEPT ![1] = 2] }

InitCommon ==
    /\ exitCode = None
    /\ printed = <<>>
    /\ destInit = destTable
    /\ destAfter1 = EmptyTable
    /\ items = <<>>
    /\ last_evaluated_key = None
    /\ bar = 0
    /\ dest_items = <<>>
    /\ widx = 1
    /\ buffer = <<>>
    /\ wbar = 0
    /\ exc = FALSE
    /\ rounds = 0
    /\ trace = <<>>
    /\ emptyLeft = MaxEmptyPages

\* cli.run on any source table and any of the destination contents
Init ==
    /\ prog = "run"
    /\ pc = "validate_src"
    /\ srcTable \in Tables
    /\ destTable \in DestInits
    /\ scanTable = "src"
    /\ src_items = <<>>
    /\ unprocLeft = MaxUnprocessedRun
    /\ InitCommon

Next ==
    \/ ValidateSrc
    \/ ValidateDest
    \/ LoadSrc
    \/ LoadDest
    \/ ScanFirst
    \/ ScanNext
    \/ WriterEnter
    \/ PutItem
    \/ CountItem
    \/ BatchExitFlush
    \/ WriterReturn

Spec == Init /\ [][Next]_vars

\* The process is never suspended for ever: every call blocks until AWS
\* answers or raises, and the code between two calls always runs on.
FairSpec == Init /\ [][Next]_vars /\ WF_vars(Next)

\* The items of the sequences S: three keys, and two different items of key 1.
SeqItems == { it \in Item : it[1] \in {1, 2, 3} /\ (it[1] = 1 \/ it[2] = 1) }

\* Item sequences of length at most MaxLen, duplicate keys included.
ItemSeqs == UNION { [1..n -> SeqItems] : n \in 0..MaxLen }

\* "roundtrip": write_items_to_dyanmodb_table(S, D); get_dynamodb_items(D)
\* "twice":     write_items_to_dyanmodb_table(S, D) two times in a row
InitRT ==
    /\ prog \in {"roundtrip", "twice"}
    /\ pc = "write_enter"
    /\ srcTable = EmptyTable
    /\ destTable \in DestInits
    /\ scanTable = "dest"
    /\ src_items \in ItemSeqs
    /\ unprocLeft = MaxUnprocessed
    /\ InitCommon

NextRT ==
    \/ ScanFirst
    \/ ScanNext
    \/ WriterEnter
    \/ PutItem
    \/ CountItem
    \/ BatchExitFlush
    \/ WriterReturn

SpecRT == InitRT /\ [][NextRT]_vars

\* ---- properties ---------------------------------------------------------
Occurrences(s, x) == Cardinality({ i \in 1..Len(s) : s[i] = x })

EventsOf(op) == { i \in 1..Len(trace) : trace[i].op = op }

Max(S) == CHOOSE x \in S : \A y \in S : y <= x

\* A scan response without 'LastEvaluatedKey' has been received.
ScanCompleteAt(i) ==
    trace[i].op = "scan" /\ trace[i].out = "ok" /\ trace[i].resp = None

ScanComplete == \E i \in 1..Len(trace) : ScanCompleteAt(i)

\* The scan got a page that carries a cursor and no item.
SawEmptyPage ==
    \E i \in EventsOf("scan") :
        trace[i].out = "ok" /\ trace[i].n = 0 /\ trace[i].resp # None

\* get_dynamodb_items has returned to run: the writer is executing, or the
\* process ended after the writer was entered.
ScanReturned ==
    /\ prog = "run"
    /\ \/ pc \in {"write_enter", "write_loop", "bar_next", "batch_exit"}
       \/ pc = "done" /\ (exitCode = 0 \/ EventsOf("write") # {})

\* C1: whatever pages the store splits the scan of the table into, once
\* get_dynamodb_items has returned, its result holds every item of the table
\* exactly once and nothing else.
C1_ScanReturnsEachItemOnce ==
    ScanReturned =>
        \A it \in Item :
            Occurrences(src_items, it) = IF srcTable[it[1]] = it[2] THEN 1 ELSE 0

\* C1 witness: a scan of a table of at least two items has returned after three
\* or more pages, one of them empty.
C1_Witness ==
    /\ ScanReturned
    /\ Len(src_items) >= 2
    /\ Cardinality(EventsOf("scan")) >= 3
    /\ SawEmptyPage

\* C2: when run ends with exit code 0 and the destination started empty, the
\* destination holds exactly the items of the source, data unchanged.
C2_CopyIsExact ==
    (prog = "run" /\ pc = "done" /\ exitCode = 0 /\ destInit = EmptyTable) =>
        destTable = srcTable

\* C2 witness: a successful run that copied at least two items with different
\* data into an empty destination in more than one batch.
C2_Witness ==
    /\ prog = "run" /\ pc = "done" /\ exitCode = 0 /\ destInit = EmptyTable
    /\ Len(src_items) >= 2
    /\ \E i, j \in 1..Len(src_items) : src_items[i][2] # src_items[j][2]
    /\ Cardinality(EventsOf("write")) >= 2

\* C3: for S without duplicate keys and D empty at start, the writer followed
\* by a scan of D yields the set of the items of S.
C3_RoundTrip ==
    (/\ prog = "roundtrip" /\ pc = "done" /\ exitCode = 0
     /\ ~HasDupKeys(src_items) /\ destInit = EmptyTable) =>
        SeqToSet(dest_items) = SeqToSet(src_items)

\* C3 witness: a completed round trip of three items in an order other than
\* the scan order, with a hand-back of unprocessed items on the way.
C3_Witness ==
    /\ prog = "roundtrip" /\ pc = "done" /\ exitCode = 0
    /\ ~HasDupKeys(src_items) /\ destInit = EmptyTable
    /\ Len(src_items) >= 3
    /\ src_items # dest_items
    /\ unprocLeft < MaxUnprocessed

\* C4 as claimed: for every S, after the writer has run twice the destination
\* holds what it held after the first run.
C4_TwiceSameAsOnce_Original ==
    (prog = "twice" /\ pc = "done" /\ exitCode = 0 /\ rounds = 2) =>
        destTable = destAfter1

\* C4 amended: for S without duplicate keys, from the return of the first
\* writer run on, the second run never changes the content of the destination.
C4_TwiceSameAsOnce ==
    (prog = "twice" /\ rounds >= 1 /\ ~HasDupKeys(src_items)) =>
        destTable = destAfter1

\* C4 witness: both runs returned, S has three items without duplicate keys,
\* the destination was not empty at start and items were handed back.
C4_Witness ==
    /\ prog = "twice" /\ pc = "done" /\ exitCode = 0 /\ rounds = 2
    /\ ~HasDupKeys(src_items)
    /\ Len(src_items) >= 3
    /\ destInit # EmptyTable
    /\ unprocLeft < MaxUnprocessed

NotFoundMsg == "ERROR: count not find the table"

\* C5: when table.load of the source or of the destination table raises
\* ResourceNotFoundException, the failure is printed, the process exits with
\* code 1, that lookup is the last request of the run, no scan and no write
\* was issued, the writer was never entered and the destination is untouched.
C5_NotFoundIsFatal ==
    \A i \in EventsOf("load") :
        trace[i].out = "ResourceNotFoundException" =>
            /\ pc = "done" /\ exitCode = 1
            /\ printed = <<NotFoundMsg>>
            /\ i = Len(trace)
            /\ EventsOf("scan") = {} /\ EventsOf("write") = {}
            /\ destTable = destInit
            /\ rounds = 0 /\ wbar = 0 /\ buffer = <<>>

\* C5 witness: the source table was found and the destination table was not.
C5_Witness ==
    /\ Len(trace) = 4
    /\ trace[3].op = "load" /\ trace[3].tgt = "src" /\ trace[3].out = "ok"
    /\ trace[4].op = "load" /\ trace[4].tgt = "dest"
    /\ trace[4].out = "ResourceNotFoundException"
    /\ pc = "done"

\* C6: when the STS call of either validation raises EndpointConnectionError,
\* the region error is printed, the process exits with code 1 and no table
\* lookup, scan or write was or will be issued.
C6_RegionErrorBeforeLookup ==
    \A i \in EventsOf("sts") :
        trace[i].out = "EndpointConnectionError" =>
            /\ pc = "done" /\ exitCode = 1
            /\ printed = <<"ERROR Invalid Region">>
            /\ i = Len(trace)
            /\ EventsOf("load") = {} /\ EventsOf("scan") = {} /\ EventsOf("write") = {}

\* C6 witness: the source credentials validated and the destination region
\* did not resolve.
C6_Witness ==
    /\ Len(trace) = 2
    /\ trace[1].out = "ok"
    /\ trace[2].op = "sts" /\ trace[2].tgt = "dest"
    /\ trace[2].out = "EndpointConnectionError"
    /\ pc = "done"

\* C7: every error raised by the STS call of a validation ends the run: the
\* process exits non-zero and the failed call is the last request.
C7_ValidationErrorIsFatal ==
    \A i \in EventsOf("sts") :
        trace[i].out \in StsErrors =>
            /\ pc = "done" /\ exitCode = 1
            /\ i = Len(trace)

WriteCount == Cardinality(EventsOf("write"))

\* C8: no batch submitted to the destination exceeds the store's limit, and
\* when the writer has returned normally it has issued at least
\* ceil(|S| / MaxBatchSize) batch writes per run.
C8_BatchesWithinLimit ==
    /\ \A i \in EventsOf("write") : Len(trace[i].batch) <= MaxBatchSize
    /\ WriteCount * MaxBatchSize >= rounds * Len(src_items)

\* C8 witness: the writer returned after handing off more items than one
\* batch holds, some of them handed back by the store, in more batches than
\* ceil(|S| / MaxBatchSize).
C8_Witness ==
    /\ prog = "roundtrip" /\ rounds = 1
    /\ Len(src_items) > MaxBatchSize
    /\ unprocLeft < MaxUnprocessed
    /\ (WriteCount - 1) * MaxBatchSize >= Len(src_items)

\* A request of the run failed.
SomeError == \E i \in 1..Len(trace) : trace[i].out # "ok"

\* Every item of the source was scanned and is in the destination.
FullSuccess ==
    /\ src_items = TableItems(srcTable)
    /\ \A k \in Keys : srcTable[k] # NoItem => destTable[k] = srcTable[k]

\* C9: run exits with code 0 only when every source item was scanned and
\* written, and exits non-zero whenever a request failed.
C9_ExitCode ==
    (prog = "run" /\ pc = "done") =>
        /\ exitCode = 0 => FullSuccess
        /\ SomeError => exitCode # 0

\* C10: a write request is issued only after a scan response without cursor;
\* a failed scan request is the last request of the run, which then has
\* exited non-zero; requests are issued one after the other, no scan after
\* the scan completed and every scan before the first write.
C10_ReadsBeforeWrites ==
    /\ \A j \in EventsOf("write") : \E i \in 1..(j - 1) : ScanCompleteAt(i)
    /\ \A i \in EventsOf("scan") :
        /\ trace[i].out = "error" =>
              i = Len(trace) /\ pc = "done" /\ exitCode = 1 /\ EventsOf("write") = {}
        /\ ScanCompleteAt(i) => \A j \in EventsOf("scan") : j <= i
    /\ (pc \in {"scan_first", "scan_loop"} /\ prog = "run") =>
          EventsOf("write") = {} /\ destTable = destInit

\* C10 witness: a run that scanned several pages and then wrote.
C10_Witness ==
    /\ prog = "run"
    /\ Cardinality(EventsOf("scan")) >= 2
    /\ EventsOf("write") # {}

\* C10 witness of the failure case: the second scan request failed.
C10_WitnessScanError ==
    /\ prog = "run" /\ pc = "done"
    /\ Cardinality(EventsOf("scan")) = 2
    /\ trace[Len(trace)].op = "scan" /\ trace[Len(trace)].out = "error"

\* C11: a failed batch write is the last request of the writer: no batch is
\* submitted after it, on exit from the batch-writer context either; the
\* exception leaves the writer and the process ends with a non-zero code; the
\* items of the batches accepted before stay in the destination.
C11_WriteErrorAborts ==
    \A i \in EventsOf("write") :
        /\ trace[i].out = "error" =>
              /\ i = Len(trace)
              /\ \/ pc = "batch_exit" /\ exc
                 \/ pc = "done" /\ exitCode = 1
        /\ (trace[i].out = "ok" /\ trace[i].n = 0) =>
              \A k \in 1..Len(trace[i].batch) :
                  destTable[trace[i].batch[k][1]] # NoItem

\* The latest request is a scan whose response carries a cursor.
LastResponseHasCursor ==
    /\ trace # <<>>
    /\ trace[Len(trace)].op = "scan"
    /\ trace[Len(trace)].out = "ok"
    /\ trace[Len(trace)].resp # None

ScanFailed == \E i \in EventsOf("scan") : trace[i].out = "error"

\* The scan loop is about to issue a request exactly when the latest response
\* carries a cursor, and no scan request follows a response without cursor.
ScanLoopFollowsCursor ==
    /\ (pc = "scan_loop") <=> LastResponseHasCursor
    /\ pc = "scan_loop" => last_evaluated_key # None
    /\ \A i \in EventsOf("scan") :
          ScanCompleteAt(i) => i = Max(EventsOf("scan")) /\ pc # "scan_loop"

\* C12: get_dynamodb_items issues a further scan request exactly while the
\* latest response carries a cursor and none after the first response
\* without one; as the store answers without cursor after finitely many
\* pages, a scan that has started returns unless a request fails.
C12_ScanStopsAtNoCursor ==
    /\ []ScanLoopFollowsCursor
    /\ (pc = "scan_first") ~> (ScanReturned \/ ScanFailed)

\* C12 witness: the scan returned after three or more requests, the last of
\* them the only one without cursor.
C12_Witness ==
    /\ ScanReturned
    /\ ~ScanFailed
    /\ Cardinality(EventsOf("scan")) >= 3
    /\ ScanCompleteAt(Max(EventsOf("scan")))

\* The pages received by the first k requests, concatenated in that order.
RECURSIVE PagesReceived(_)
PagesReceived(k) ==
    IF k = 0 THEN <<>>
    ELSE PagesReceived(k - 1)
         \o (IF trace[k].op = "scan" /\ trace[k].out = "ok" THEN trace[k].batch ELSE <<>>)

\* C13: the first scan request carries no cursor, every later one carries the
\* cursor of the response received just before it; the items accumulated, and
\* the sequence returned, are the pages concatenated in the order received.
C13_CursorChain ==
    prog = "run" =>
        /\ \A j \in EventsOf("scan") :
              LET before == { i \in EventsOf("scan") : i < j } IN
              IF before = {} THEN trace[j].req = None
              ELSE /\ trace[Max(before)].out = "ok"
                   /\ trace[Max(before)].resp # None
                   /\ trace[j].req = trace[Max(before)].resp
        /\ pc = "scan_loop" => items = PagesReceived(Len(trace))
        /\ ScanReturned => src_items = PagesReceived(Len(trace))

\* C13 witness: a scan returned after requests with two different cursors and
\* one request that repeats the cursor of an empty page.
C13_Witness ==
    /\ ScanReturned
    /\ \E i, j \in EventsOf("scan") :
          /\ trace[i].req # None /\ trace[j].req # None
          /\ trace[i].req # trace[j].req
    /\ SawEmptyPage
    /\ Len(src_items) = Cardinality(Keys)

\* C14: the reader's counter never decreases; after every page it equals the
\* number of items accumulated so far, and when get_dynamodb_items has
\* returned it equals the length of the returned list.
C14_ReaderCounter ==
    /\ [](prog = "run" =>
            /\ pc = "scan_loop" => bar = Len(items)
            /\ ScanReturned => bar = Len(src_items) /\ bar = Len(items))
    /\ [][bar' >= bar]_vars

\* C14 witness: the scan returned at least two items in three or more pages,
\* one page empty and one with more than one item.
C14_Witness ==
    /\ ScanReturned
    /\ bar >= 2
    /\ Cardinality(EventsOf("scan")) >= 3
    /\ \E i \in EventsOf("scan") : trace[i].n = 0
    /\ \E i \in EventsOf("scan") : trace[i].n >= 2

\* Items the destination accepted in the first k requests: the items of the
\* successful batch writes that were not handed back as unprocessed.
RECURSIVE Accepted(_)
Accepted(k) ==
    IF k = 0 THEN 0
    ELSE Accepted(k - 1)
         + (IF trace[k].op = "write" /\ trace[k].out = "ok"
            THEN Len(trace[k].batch) - trace[k].n ELSE 0)

\* Items handed to batch.put_item so far: the call of the current iteration
\* has been made when bar.next() is next or when it raised.
Handed == IF pc = "bar_next" \/ (pc \in {"batch_exit", "done"} /\ exc)
          THEN widx ELSE widx - 1

WriteFailed == \E i \in EventsOf("write") : trace[i].out = "error"

\* The writer of the round trip is executing or has been executed.
InWriter == prog = "roundtrip" /\ pc # "write_enter"

\* C15 as claimed: the counter follows the items handed to put_item one by
\* one, and at every moment items written <= counter <= |S|; after a successful writer
\* call the counter is |S| and every item handed off is in the destination.
C15_WriterCounter_Original ==
    InWriter =>
        /\ wbar \in {Handed - 1, Handed}
        /\ Accepted(Len(trace)) <= wbar
        /\ wbar <= Len(src_items)
        /\ rounds = 1 =>
              /\ wbar = Len(src_items)
              /\ buffer = <<>>
              /\ Accepted(Len(trace)) = Len(src_items)

\* C15 amended: the counter counts the put_item calls that returned, one per
\* loop iteration in input order; at every moment items written <= counter + 1
\* and counter <= |S|, and items written <= counter except between a put_item
\* call and its bar.next(); handed-off items are accepted, buffered or were in
\* a failed batch; after a successful writer call the counter is |S| and
\* every item handed off is in the destination.
C15_WriterCounter ==
    InWriter =>
        /\ wbar = widx - 1
        /\ Handed - wbar \in {0, 1}
        /\ Accepted(Len(trace)) <= wbar + 1
        /\ pc # "bar_next" => Accepted(Len(trace)) <= wbar
        /\ wbar <= Len(src_items)
        /\ Handed <= Len(src_items)
        /\ SeqToSet(buffer) \subseteq SeqToSet(SubSeq(src_items, 1, Handed))
        /\ Accepted(Len(trace)) + Len(buffer) <= Handed
        /\ ~WriteFailed => Accepted(Len(trace)) + Len(buffer) = Handed
        /\ rounds = 1 =>
              /\ wbar = Len(src_items)
              /\ buffer = <<>>
              /\ Accepted(Len(trace)) = Len(src_items)

\* C15 witness: put_item has flushed a full batch that the store accepted and
\* bar.next() has not run yet: more items are written than counted.
C15_Witness ==
    /\ InWriter
    /\ pc = "bar_next"
    /\ Accepted(Len(trace)) = wbar + 1
    /\ wbar >= 1

\* C15 witness of the completion: the writer returned after three items, some
\* of them handed back on the way.
C15_WitnessDone ==
    /\ InWriter
    /\ rounds = 1
    /\ wbar >= 3
    /\ unprocLeft < MaxUnprocessed

====
